---- MODULE Spec2Model ----
(***************************************************************************)
(* Model of src/main.py: a FastAPI /chat endpoint that wires a LangChain   *)
(* SQL agent to a per-user Postgres chat history.                          *)
(*                                                                         *)
(* Python values.  A str is a sequence of one-character strings, so that   *)
(* strip() can be computed; None is a value no str equals.  Tool names,    *)
(* exception texts and session ids are only compared, and are TLA+ strings.*)
(*                                                                         *)
(* Three specifications share the module:                                  *)
(*   SpecDerive   stable_session_id applied to bounded inputs              *)
(*   SpecHandler  one SQLResultHandler fed arbitrary tool events           *)
(*   Spec         the process: startup, concurrent /chat requests          *)
(***************************************************************************)
EXTENDS Integers, Sequences, FiniteSets, TLC

VARIABLES
    d_in, d_out,                 \* SpecDerive: the argument and the outcome
    h_obj, h_log, h_ret,         \* SpecHandler: the handler, its event log, the value read
    phase, tableExists, startupLog,   \* Spec: process lifecycle
    req, handlers, store, conns, nextRun        \* Spec: requests and backends

deriveVars  == <<d_in, d_out>>
handlerVars == <<h_obj, h_log, h_ret>>
procVars    == <<phase, tableExists, startupLog>>
chatVars    == <<req, handlers, store, conns, nextRun>>
vars        == <<d_in, d_out, h_obj, h_log, h_ret,
                 phase, tableExists, startupLog,
                 req, handlers, store, conns, nextRun>>

(***************************************************************************)
(* Bounds                                                                  *)
(***************************************************************************)
MaxIdLen  == 3      \* longest user_id drawn in SpecDerive
MaxEvents == 4      \* tool events delivered to the handler in SpecHandler
MaxRuns   == 2      \* tool runs started by all agent executions of one process

(***************************************************************************)
(* Python values                                                           *)
(***************************************************************************)
None == <<"None">>

\* A str is the sequence of its characters.  A character is written as the
\* TLA+ string of that one character or, when a TLA+ string cannot hold it
\* (U+2000 and above, the surrogates), as its Python escape: "\\u2003",
\* "\\ud800", "\\U0001f600".

\* the characters of str.isspace() that have no escape in a TLA+ string:
\* U+000B, U+001C..U+001F, U+0085, U+00A0, U+1680
VT   == ""
FS   == ""
GS   == ""
RS   == ""
US   == ""
NEL  == ""
NBSP == " "
OGHAM_SPACE == " "

EM_SPACE == "\\u2003"

\* the characters a TLA+ string cannot hold, with their code points: the rest
\* of str.isspace(), the euro sign, the ends of the two surrogate ranges, and
\* characters beyond U+FFFF
LONE_SURROGATE == "\\ud800"
GRINNING_FACE  == "\\U0001f600"

Escaped ==
    {<<"\\u2000", 8192>>, <<"\\u2001", 8193>>, <<"\\u2002", 8194>>, <<EM_SPACE, 8195>>,
     <<"\\u2004", 8196>>, <<"\\u2005", 8197>>, <<"\\u2006", 8198>>, <<"\\u2007", 8199>>,
     <<"\\u2008", 8200>>, <<"\\u2009", 8201>>, <<"\\u200a", 8202>>, <<"\\u2028", 8232>>,
     <<"\\u2029", 8233>>, <<"\\u202f", 8239>>, <<"\\u205f", 8287>>, <<"\\u3000", 12288>>,
     <<"\\u20ac", 8364>>,
     <<LONE_SURROGATE, 55296>>, <<"\\udbff", 56319>>, <<"\\udc00", 56320>>,
     <<"\\udfff", 57343>>,
     <<"\\U00010000", 65536>>, <<GRINNING_FACE, 128512>>, <<"\\U0010ffff", 1114111>>}

\* the characters str.strip() removes: those of str.isspace()
Whitespace ==
    {"\t", "\n", VT, "\f", "\r", FS, GS, RS, US, " ", NEL, NBSP, OGHAM_SPACE,
     "\\u2000", "\\u2001", "\\u2002", EM_SPACE, "\\u2004", "\\u2005", "\\u2006",
     "\\u2007", "\\u2008", "\\u2009", "\\u200a", "\\u2028", "\\u2029", "\\u202f",
     "\\u205f", "\\u3000"}

\* the characters user ids are drawn from in SpecDerive: blanks of one, two
\* and three bytes, a letter, a character of four bytes, a lone surrogate
Chars == {" ", "\t", NBSP, EM_SPACE, "a", GRINNING_FACE, LONE_SURROGATE}

SeqsUpTo(A, n) == UNION {[1..k -> A] : k \in 0..n}

\* str.lstrip() / str.rstrip() / str.strip() with no argument
RECURSIVE LStrip(_)
LStrip(s) == IF s # <<>> /\ Head(s) \in Whitespace THEN LStrip(Tail(s)) ELSE s

RECURSIVE RStrip(_)
RStrip(s) ==
    IF s # <<>> /\ s[Len(s)] \in Whitespace
    THEN RStrip(SubSeq(s, 1, Len(s) - 1))
    ELSE s

Strip(s) == RStrip(LStrip(s))

(***************************************************************************)
(* Deterministic session id                                                *)
(***************************************************************************)
\* uuid.UUID("12345678-1234-5678-1234-567812345678"), as its 16 bytes
UUID_NAMESPACE ==
    <<18, 52, 86, 120, 18, 52, 86, 120, 18, 52, 86, 120, 18, 52, 86, 120>>

(***************************************************************************)
(* uuid.uuid5(namespace, name): the first 16 bytes of                      *)
(* SHA-1(namespace.bytes + name) with the version and variant bits set,    *)
(* printed as 8-4-4-4-12 hexadecimal digits.  A 32-bit word is a pair      *)
(* <<high half, low half>> of 16-bit numbers.                              *)
(***************************************************************************)
\* bitwise operations on the low n bits: exclusive or of four numbers, the
\* SHA-1 choice and majority functions
RECURSIVE Xor4(_, _, _, _, _)
Xor4(a, b, c, d, n) ==
    IF n = 0 THEN 0
    ELSE (((a % 2) + (b % 2) + (c % 2) + (d % 2)) % 2)
         + 2 * Xor4(a \div 2, b \div 2, c \div 2, d \div 2, n - 1)

RECURSIVE Ch(_, _, _, _)
Ch(b, c, d, n) ==
    IF n = 0 THEN 0
    ELSE (IF (b % 2) = 1 THEN (c % 2) ELSE (d % 2))
         + 2 * Ch(b \div 2, c \div 2, d \div 2, n - 1)

RECURSIVE Maj(_, _, _, _)
Maj(b, c, d, n) ==
    IF n = 0 THEN 0
    ELSE (IF (b % 2) + (c % 2) + (d % 2) >= 2 THEN 1 ELSE 0)
         + 2 * Maj(b \div 2, c \div 2, d \div 2, n - 1)

\* the same on words, addition modulo 2^32, rotation to the left by k < 16
\* bits and by 30 bits
Zero == <<0, 0>>
WXor4(a, b, c, d) == <<Xor4(a[1], b[1], c[1], d[1], 16), Xor4(a[2], b[2], c[2], d[2], 16)>>
WCh(b, c, d)  == <<Ch(b[1], c[1], d[1], 16), Ch(b[2], c[2], d[2], 16)>>
WMaj(b, c, d) == <<Maj(b[1], c[1], d[1], 16), Maj(b[2], c[2], d[2], 16)>>
Add(a, b) ==
    LET lo == a[2] + b[2]
        hi == a[1] + b[1] + (lo \div 65536)
    IN <<hi % 65536, lo % 65536>>
Rotl(w, k) ==
    LET p == 2 ^ k
        q == 2 ^ (16 - k)
    IN <<((w[1] * p) % 65536) + (w[2] \div q), ((w[2] * p) % 65536) + (w[1] \div q)>>
Rotl30(w) == Rotl(<<w[2], w[1]>>, 14)

\* the message followed by 0x80, zeros and its length in bits as 8 bytes
RECURSIVE Zeros(_)
Zeros(n) == IF n = 0 THEN <<>> ELSE <<0>> \o Zeros(n - 1)

Pad(m) ==
    LET L == Len(m)
        k == (119 - L) % 64
        bits == 8 * L
    IN m \o <<128>> \o Zeros(k) \o
       <<0, 0, 0, 0, (bits \div 16777216) % 256, (bits \div 65536) % 256,
         (bits \div 256) % 256, (bits % 256)>>

\* the sixteen words of the 64-byte block that starts after m[base]
BlockWords(m, base) ==
    [i \in 1..16 |->
        <<m[base + 4 * i - 3] * 256 + m[base + 4 * i - 2],
          m[base + 4 * i - 1] * 256 + m[base + 4 * i]>>]

\* the message schedule: words lo..hi appended to w, which holds lo - 1 words
\* (the test on Len has w evaluated before the words after it are computed)
RECURSIVE Schedule(_, _, _)
Schedule(lo, hi, w) ==
    IF Len(w) # lo - 1 \/ lo > hi THEN w
    ELSE IF lo = hi
    THEN Append(w, Rotl(WXor4(w[lo - 3], w[lo - 8], w[lo - 14], w[lo - 16]), 1))
    ELSE LET mid == (lo + hi) \div 2
         IN Schedule(mid + 1, hi, Schedule(lo, mid, w))

\* round t on the working variables s = <<a, b, c, d, e>>
Round(t, s, wt) ==
    LET f == IF t <= 20 THEN WCh(s[2], s[3], s[4])
             ELSE IF t <= 40 THEN WXor4(s[2], s[3], s[4], Zero)
             ELSE IF t <= 60 THEN WMaj(s[2], s[3], s[4])
             ELSE WXor4(s[2], s[3], s[4], Zero)
        k == IF t <= 20 THEN <<23170, 31129>>
             ELSE IF t <= 40 THEN <<28377, 60321>>
             ELSE IF t <= 60 THEN <<36635, 48348>>
             ELSE <<51810, 49622>>
        temp == Add(Add(Add(Add(Rotl(s[1], 5), f), s[5]), k), wt)
    IN <<temp, s[1], Rotl30(s[2]), s[3], s[4]>>

\* rounds lo..hi
RECURSIVE Rounds(_, _, _, _)
Rounds(lo, hi, s, w) ==
    IF Len(s) # 5 \/ lo > hi THEN s
    ELSE IF lo = hi
    THEN Round(lo, s, w[lo])
    ELSE LET mid == (lo + hi) \div 2
         IN Rounds(mid + 1, hi, Rounds(lo, mid, s, w), w)

Compress(h, block) ==
    LET w == Schedule(17, 80, block)
        s == Rounds(1, 80, h, w)
    IN IF Len(w) = 80 /\ Len(s) = 5 THEN [i \in 1..5 |-> Add(h[i], s[i])] ELSE h

RECURSIVE Blocks(_, _, _)
Blocks(m, base, h) ==
    IF Len(h) # 5 \/ base >= Len(m) THEN h
    ELSE Blocks(m, base + 64, Compress(h, BlockWords(m, base)))

SHA1(m) ==
    LET h == Blocks(Pad(m), 0,
                    <<<<26437, 8961>>, <<61389, 43913>>, <<39098, 56574>>,
                      <<4146, 21622>>, <<50130, 57840>>>>)
    IN [i \in 1..20 |->
          LET w == h[((i - 1) \div 4) + 1]
              half == w[(((i - 1) % 4) \div 2) + 1]
          IN IF (i % 2) = 1 THEN (half \div 256) ELSE (half % 256)]

\* ord(): the characters 32..126 in order, without the backquote (96), which
\* a TLA+ string cannot hold, and the code points of the whitespace characters
Printable ==
    <<" ", "!", "\"", "#", "$", "%", "&", "'", "(", ")", "*", "+", ",", "-", ".", "/",
      "0", "1", "2", "3", "4", "5", "6", "7", "8", "9", ":", ";", "<", "=", ">", "?",
      "@", "A", "B", "C", "D", "E", "F", "G", "H", "I", "J", "K", "L", "M", "N", "O",
      "P", "Q", "R", "S", "T", "U", "V", "W", "X", "Y", "Z", "[", "\\", "]", "^", "_",
      "a", "b", "c", "d", "e", "f", "g", "h", "i", "j", "k", "l", "m", "n", "o",
      "p", "q", "r", "s", "t", "u", "v", "w", "x", "y", "z", "{", "|", "}", "~">>

ord(c) ==
    IF \E row \in Escaped : row[1] = c
    THEN (CHOOSE row \in Escaped : row[1] = c)[2]
    ELSE IF c = "\t" THEN 9
    ELSE IF c = "\n" THEN 10
    ELSE IF c = "\f" THEN 12
    ELSE IF c = "\r" THEN 13
    ELSE IF c = VT THEN 11
    ELSE IF c = FS THEN 28
    ELSE IF c = GS THEN 29
    ELSE IF c = RS THEN 30
    ELSE IF c = US THEN 31
    ELSE IF c = NEL THEN 133
    ELSE IF c = NBSP THEN 160
    ELSE IF c = OGHAM_SPACE THEN 5760
    ELSE LET i == CHOOSE j \in 1..Len(Printable) : Printable[j] = c
         IN IF i <= 64 THEN 31 + i ELSE 32 + i

\* the two ways a call ends
Raise(type, text) == [ok |-> FALSE, type |-> type, text |-> text]
Return(value)     == [ok |-> TRUE, value |-> value]

\* two hexadecimal digits of a byte, the decimal digits of a natural number
HexDigits == <<"0", "1", "2", "3", "4", "5", "6", "7", "8", "9", "a", "b", "c", "d", "e", "f">>
Hex(b) == HexDigits[(b \div 16) + 1] \o HexDigits[(b % 16) + 1]

RECURSIVE Dec(_)
Dec(n) == IF n < 10 THEN HexDigits[n + 1] ELSE Dec(n \div 10) \o HexDigits[(n % 10) + 1]

\* the code points U+D800..U+DFFF have no UTF-8 encoding
IsSurrogate(cp) == cp >= 55296 /\ cp <= 57343

\* the error str.encode raises on the surrogates at positions i..j of a str
UnicodeEncodeError(cps, i, j) ==
    Raise("UnicodeEncodeError",
          "'utf-8' codec can't encode "
          \o (IF i = j
              THEN "character '\\u" \o Hex(cps[i] \div 256) \o Hex(cps[i] % 256)
                   \o "' in position " \o Dec(i - 1)
              ELSE "characters in position " \o Dec(i - 1) \o "-" \o Dec(j - 1))
          \o ": surrogates not allowed")

\* chr(cp).encode("utf-8")
utf8(cp) ==
    IF cp < 0 \/ cp > 1114111
    THEN Raise("ValueError", "chr() arg not in range(0x110000)")
    ELSE IF IsSurrogate(cp) THEN UnicodeEncodeError(<<cp>>, 1, 1)
    ELSE IF cp < 128 THEN Return(<<cp>>)
    ELSE IF cp < 2048 THEN Return(<<192 + (cp \div 64), 128 + (cp % 64)>>)
    ELSE IF cp < 65536
    THEN Return(<<224 + (cp \div 4096), 128 + ((cp \div 64) % 64), 128 + (cp % 64)>>)
    ELSE Return(<<240 + (cp \div 262144), 128 + ((cp \div 4096) % 64),
                  128 + ((cp \div 64) % 64), 128 + (cp % 64)>>)

RECURSIVE utf8_bytes(_)
utf8_bytes(cps) ==
    IF cps = <<>> THEN <<>> ELSE utf8(Head(cps)).value \o utf8_bytes(Tail(cps))

\* str.encode("utf-8") on the code points of a str: the bytes, or the error
\* for the first run of surrogates
encode_utf8(cps) ==
    LET bad == {i \in 1..Len(cps) : IsSurrogate(cps[i])} IN
    IF bad = {} THEN Return(utf8_bytes(cps))
    ELSE LET i == CHOOSE k \in bad : \A m \in bad : k <= m
             j == CHOOSE k \in bad :
                     /\ k >= i /\ (k + 1) \notin bad
                     /\ \A m \in i..k : m \in bad
         IN UnicodeEncodeError(cps, i, j)

\* name.encode("utf-8")
encode(s) == encode_utf8([i \in 1..Len(s) |-> ord(s[i])])

\* str(UUID): hexadecimal digits in groups of 8-4-4-4-12
RECURSIVE HexOf(_, _, _)
HexOf(bytes, i, j) == IF i > j THEN "" ELSE Hex(bytes[i]) \o HexOf(bytes, i + 1, j)

\* str(UUID(bytes=sha1(namespace.bytes + bytes(name, "utf-8")).digest()[:16],
\* version=5)), or the error of the encoding
uuid5(namespace, name) ==
    LET data == encode(name) IN
    IF ~data.ok THEN data
    ELSE
    LET hash == SHA1(namespace \o data.value)
        b == [i \in 1..16 |->
                IF i = 7 THEN (hash[i] % 16) + 80
                ELSE IF i = 9 THEN (hash[i] % 64) + 128
                ELSE hash[i]]
    IN Return(HexOf(b, 1, 4) \o "-" \o HexOf(b, 5, 6) \o "-" \o HexOf(b, 7, 8) \o "-"
              \o HexOf(b, 9, 10) \o "-" \o HexOf(b, 11, 16))

(***************************************************************************)
(* Inputs                                                                  *)
(***************************************************************************)
\* the arguments stable_session_id is applied to in SpecDerive
UserIdArgs == {None} \cup SeqsUpTo(Chars, MaxIdLen)

QunLi  == <<"Q", "u", "n", " ", "L", "i">>
Alice  == <<"a", "l", "i", "c", "e">>
Hi     == <<"h", "i">>

\* JSON bodies a client posts to /chat; None is a field that is absent or null
Body(message, user_id) == [message |-> message, user_id |-> user_id]
Bodies ==
    {Body(None, Alice), Body(Hi, None),
     Body(Hi, <<>>), Body(Hi, <<" ">>),
     Body(Hi, QunLi), Body(Hi, <<" ">> \o QunLi \o <<" ">>), Body(Hi, Alice),
     Body(Hi, <<"a", NBSP, GRINNING_FACE>>),
     Body(<<>>, Alice)}

\* uuid5 is a function of the name alone: its values on the names the
\* specifications hash are computed once
Names ==
    ({Strip(u) : u \in UserIdArgs}
       \cup {b.user_id : b \in Bodies} \cup {Strip(b.user_id) : b \in Bodies})
    \ {None}

UUID5Memo == {<<name, uuid5(UUID_NAMESPACE, name)>> : name \in Names}

UUID5(namespace, name) ==
    IF namespace = UUID_NAMESPACE /\ name \in Names
    THEN (CHOOSE row \in UUID5Memo : row[1] = name)[2]
    ELSE uuid5(namespace, name)


\* slip: emptiness is tested before strip() instead of after
stable_session_id_EmptyBeforeStrip(user_id) ==
    IF user_id = None
    THEN Raise("ValueError", "user_id cannot be None")
    ELSE IF user_id = <<>>
         THEN Raise("ValueError", "user_id cannot be empty")
         ELSE UUID5(UUID_NAMESPACE, Strip(user_id))

\* slip: the name is hashed as given, strip() only feeds the emptiness test
stable_session_id_HashUnstripped(user_id) ==
    IF user_id = None
    THEN Raise("ValueError", "user_id cannot be None")
    ELSE IF Strip(user_id) = <<>>
         THEN Raise("ValueError", "user_id cannot be empty")
         ELSE UUID5(UUID_NAMESPACE, user_id)

\* slip: the literal 'user_id' is hashed in place of the argument
stable_session_id_Constant(user_id) ==
    IF user_id = None
    THEN Raise("ValueError", "user_id cannot be None")
    ELSE IF Strip(user_id) = <<>>
         THEN Raise("ValueError", "user_id cannot be empty")
         ELSE UUID5(UUID_NAMESPACE, <<"u", "s", "e", "r", "_", "i", "d">>)

stable_session_id(user_id) ==
    IF user_id = None
    THEN Raise("ValueError", "user_id cannot be None")
    ELSE LET stripped == Strip(user_id) IN
         IF stripped = <<>>
         THEN Raise("ValueError", "user_id cannot be empty")
         ELSE UUID5(UUID_NAMESPACE, stripped)

(***************************************************************************)
(* SQL callback                                                            *)
(***************************************************************************)
SQL_TOOL == "sql_db_query"

\* what a caller can pass as `serialized`
Dict(name)     == [isDict |-> TRUE,  hasName |-> TRUE,  text |-> name]
DictNoName     == [isDict |-> TRUE,  hasName |-> FALSE, text |-> ""]
NonDict(asStr) == [isDict |-> FALSE, hasName |-> FALSE, text |-> asStr]

\* kwargs.get('run_id') when the caller passes none
NoRunId == 0

SQLResultHandler == [latest_sql_result |-> None, sql_run_ids |-> {}]

tool_name(serialized) ==
    IF serialized.isDict
    THEN IF serialized.hasName THEN serialized.text ELSE "unknown"
    ELSE serialized.text

\* slip: every started tool is recorded, whatever its name
on_tool_start_AnyTool(self, serialized, run_id) ==
    [self EXCEPT !.sql_run_ids = @ \cup {run_id}]

on_tool_start(self, serialized, run_id) ==
    IF tool_name(serialized) = SQL_TOOL
    THEN [self EXCEPT !.sql_run_ids = @ \cup {run_id}]
    ELSE self

\* slip: the run id stays in the pending set after its end
on_tool_end_NoDiscard(self, output, run_id) ==
    IF run_id \in self.sql_run_ids
    THEN [self EXCEPT !.latest_sql_result = output]
    ELSE self

on_tool_end(self, output, run_id) ==
    IF run_id \in self.sql_run_ids
    THEN [self EXCEPT !.latest_sql_result = output,
                      !.sql_run_ids = @ \ {run_id}]
    ELSE self

get_latest_result(self) == self.latest_sql_result

(***************************************************************************)
(* SpecDerive: stable_session_id on every user_id up to MaxIdLen           *)
(***************************************************************************)
NotCalled == [called |-> FALSE]

DeriveIdle == d_in = None /\ d_out = NotCalled

DeriveInit == DeriveIdle

DeriveCall ==
    /\ ~d_out.called
    /\ d_out' = [called |-> TRUE, result |-> stable_session_id(d_in)]
    /\ UNCHANGED <<d_in, handlerVars, procVars, chatVars>>

DeriveNext ==
    /\ d_out.called
    /\ d_in' \in UserIdArgs
    /\ d_out' = NotCalled
    /\ UNCHANGED <<handlerVars, procVars, chatVars>>

(***************************************************************************)
(* SpecHandler: one SQLResultHandler, any sequence of callbacks            *)
(***************************************************************************)
FiveRows == <<"5", " ", "r", "o", "w", "s">>
NoRows   == <<"[", "]">>
Outputs  == {FiveRows, NoRows}

SerializedArgs ==
    {Dict(SQL_TOOL), Dict("sql_db_schema"), DictNoName, NonDict(SQL_TOOL)}

RunIdArgs == {NoRunId, 1, 2}

StartEvent(serialized, run_id) ==
    [kind |-> "start", serialized |-> serialized, run_id |-> run_id]
EndEvent(output, run_id) ==
    [kind |-> "end", output |-> output, run_id |-> run_id]

Unread == [read |-> FALSE]

HandlerIdle == h_obj = SQLResultHandler /\ h_log = <<>> /\ h_ret = Unread

HandlerInit == HandlerIdle

HToolStart ==
    /\ ~h_ret.read
    /\ Len(h_log) < MaxEvents
    /\ \E serialized \in SerializedArgs, run_id \in RunIdArgs :
          /\ h_obj' = on_tool_start(h_obj, serialized, run_id)
          /\ h_log' = Append(h_log, StartEvent(serialized, run_id))
    /\ UNCHANGED <<h_ret, deriveVars, procVars, chatVars>>

HToolEnd ==
    /\ ~h_ret.read
    /\ Len(h_log) < MaxEvents
    /\ \E output \in Outputs, run_id \in RunIdArgs :
          /\ h_obj' = on_tool_end(h_obj, output, run_id)
          /\ h_log' = Append(h_log, EndEvent(output, run_id))
    /\ UNCHANGED <<h_ret, deriveVars, procVars, chatVars>>

\* chat_endpoint reads the handler once, when the agent has returned
HGetLatest ==
    /\ ~h_ret.read
    /\ h_ret' = [read |-> TRUE, value |-> get_latest_result(h_obj)]
    /\ UNCHANGED <<h_obj, h_log, deriveVars, procVars, chatVars>>

(***************************************************************************)
(* Spec: the process                                                       *)
(***************************************************************************)
\* requests are numbered in the order they arrive; two are in flight at most
Reqs == {1, 2}

ToolNames == {SQL_TOOL, "sql_db_schema"}
Replies == {<<"o", "k">>}
BackendErrors == {"connection refused"}
AgentErrors == {"agent stopped"}

NoSession == "unbound"
NoException == [ok |-> TRUE]
NoResponse == [status |-> 0]

IdleRequest ==
    [pc |-> "idle", message |-> None, user_id |-> None, session_id |-> NoSession,
     history |-> <<>>, runs |-> {}, sql_outputs |-> {}, exc |-> NoException,
     connects |-> 0, invokes |-> 0, output |-> None, response |-> NoResponse]

\* the handler object a request's callbacks are delivered to: one per request
HandlerOf_Shared(r) == 1

HandlerOf(r) == r

\* FastAPI's validation of the body against ChatRequest, before the handler runs
ChatRequest(message, user_id) ==
    IF message = None \/ user_id = None
    THEN Raise("RequestValidationError", "field required")
    ELSE Return([message |-> message, user_id |-> user_id])

\* the except clause of chat_endpoint
HTTPException(status_code, detail) == [status |-> status_code, detail |-> detail]

\* slip: what was captured before the failure is still sent
chat_endpoint_except_Partial(e, sql_handler) ==
    IF get_latest_result(sql_handler) # None
    THEN [status |-> 200, reply |-> e.text, raw_sql_result |-> get_latest_result(sql_handler)]
    ELSE HTTPException(500, e.text)

chat_endpoint_except(e, sql_handler) == HTTPException(500, e.text)

ChatResponse(reply, raw_sql_result) ==
    [status |-> 200, reply |-> reply, raw_sql_result |-> raw_sql_result]

\* the chat_history table: rows (session_id, message), in insertion order
Row(session_id, type, content) ==
    [session_id |-> session_id, type |-> type, content |-> content]

get_messages(table, session_id) ==
    SelectSeq(table, LAMBDA row : row.session_id = session_id)

add_messages(table, session_id, message, reply) ==
    table \o <<Row(session_id, "human", message), Row(session_id, "ai", reply)>>

\* psycopg.connect + PostgresChatMessageHistory.create_tables, as the
\* specification describes the table-ensure step: a table that is absent is
\* created, one that exists already is success, not an error
create_tables(exists, backendFails) ==
    IF backendFails THEN Raise("OperationalError", "connection refused")
    ELSE IF exists THEN Return("exists")
    ELSE Return("created")

NotStarted == [ran |-> FALSE]

\* the framework routes requests to the endpoint once every startup handler
\* has returned; a startup handler that raises ends the process
accepts_traffic == phase = "serving"

\* the process has been launched; the backend may hold the table already,
\* left by an earlier run of the process
ProcInit ==
    /\ phase = "starting" /\ tableExists \in BOOLEAN /\ startupLog = NotStarted

ProcIdle ==
    /\ phase = "starting" /\ tableExists = FALSE /\ startupLog = NotStarted

ChatIdle ==
    /\ req = [r \in Reqs |-> IdleRequest]
    /\ handlers = [r \in Reqs |-> SQLResultHandler]
    /\ store = <<>> /\ conns = {} /\ nextRun = 0

\* slip: the except clause prints the failure and does not re-raise it
startup_Swallowed ==
    /\ phase = "starting"
    /\ \E backendFails \in BOOLEAN :
          LET res == create_tables(tableExists, backendFails) IN
          /\ startupLog' = [ran |-> TRUE, existed |-> tableExists,
                            backendFails |-> backendFails, result |-> res]
          /\ tableExists' = (tableExists \/ res.ok)
          /\ phase' = "serving"
    /\ UNCHANGED <<chatVars, deriveVars, handlerVars>>

\* the startup handler: try create_tables; except: print, raise
startup ==
    /\ phase = "starting"
    /\ \E backendFails \in BOOLEAN :
          LET res == create_tables(tableExists, backendFails) IN
          /\ startupLog' = [ran |-> TRUE, existed |-> tableExists,
                            backendFails |-> backendFails, result |-> res]
          /\ tableExists' = (tableExists \/ res.ok)
          /\ phase' = IF res.ok THEN "serving" ELSE "aborted"
    /\ UNCHANGED <<chatVars, deriveVars, handlerVars>>

Finish(r, e, response) ==
    [req[r] EXCEPT !.pc = "done", !.exc = e, !.response = response]

\* the r-th request to arrive: body validation, then chat_endpoint up to its first suspension:
\* SQLResultHandler(), create_agent_with_memory -> get_memory ->
\* get_session_history -> stable_session_id, await connect
Receive(r) ==
    /\ accepts_traffic
    /\ req[r].pc = "idle"
    /\ \A q \in Reqs : q < r => req[q].pc # "idle"
    /\ \E json \in Bodies :
          LET body == ChatRequest(json.message, json.user_id)
              got  == [req[r] EXCEPT !.message = json.message,
                                     !.user_id = json.user_id]
          IN
          IF ~body.ok
          THEN /\ req' = [req EXCEPT ![r] =
                            [got EXCEPT !.pc = "done",
                                        !.response = HTTPException(422, body.text)]]
               /\ UNCHANGED handlers
          ELSE \E sid \in {stable_session_id(body.value.user_id)} :
               /\ handlers' = [handlers EXCEPT ![HandlerOf(r)] = SQLResultHandler]
               /\ req' = [req EXCEPT ![r] =
                            IF sid.ok
                            THEN [got EXCEPT !.pc = "connecting",
                                             !.session_id = sid.value]
                            ELSE [got EXCEPT !.pc = "done", !.exc = sid,
                                    !.response =
                                       chat_endpoint_except(sid, SQLResultHandler)]]
    /\ UNCHANGED <<procVars, store, conns, nextRun, deriveVars, handlerVars>>

\* psycopg.AsyncConnection.connect returns or raises; on return the history,
\* the memory and the agent are built and agent.ainvoke is entered
Connect(r) ==
    /\ req[r].pc = "connecting"
    /\ \/ /\ conns' = conns \cup {r}
          /\ req' = [req EXCEPT ![r] = [@ EXCEPT !.pc = "loading",
                                                  !.connects = @ + 1,
                                                  !.invokes = @ + 1]]
       \/ \E text \in BackendErrors :
          LET e == Raise("OperationalError", text) IN
          /\ req' = [req EXCEPT ![r] =
                       [Finish(r, e, chat_endpoint_except(e, handlers[HandlerOf(r)]))
                          EXCEPT !.connects = @ + 1]]
          /\ UNCHANGED conns
    /\ UNCHANGED <<procVars, handlers, store, nextRun, deriveVars, handlerVars>>

\* the memory reads the session's messages as the agent's "history" variable
Load(r) ==
    /\ req[r].pc = "loading"
    /\ req' = [req EXCEPT ![r] =
                 [@ EXCEPT !.pc = "running",
                           !.history = get_messages(store, req[r].session_id)]]
    /\ UNCHANGED <<procVars, handlers, store, conns, nextRun, deriveVars, handlerVars>>

\* the agent starts a tool: callbacks of this invocation get on_tool_start
ToolStart(r) ==
    /\ req[r].pc = "running"
    /\ nextRun < MaxRuns
    /\ \E name \in ToolNames :
          LET run_id == nextRun + 1 IN
          /\ nextRun' = run_id
          /\ handlers' = [handlers EXCEPT ![HandlerOf(r)] =
                            on_tool_start(@, Dict(name), run_id)]
          /\ req' = [req EXCEPT ![r].runs = @ \cup {<<run_id, name>>}]
    /\ UNCHANGED <<procVars, store, conns, deriveVars, handlerVars>>

ToolEnd(r) ==
    /\ req[r].pc = "running"
    /\ \E run \in req[r].runs, output \in Outputs :
          /\ handlers' = [handlers EXCEPT ![HandlerOf(r)] =
                            on_tool_end(@, output, run[1])]
          /\ req' = [req EXCEPT ![r] =
                       [@ EXCEPT !.runs = @ \ {run},
                                 !.sql_outputs =
                                    IF run[2] = SQL_TOOL THEN @ \cup {output} ELSE @]]
    /\ UNCHANGED <<procVars, store, conns, nextRun, deriveVars, handlerVars>>

\* agent.ainvoke raises: in the history read, in the LLM call, in the history
\* write, or after the rows of the turn were committed
AgentFail(r) ==
    /\ req[r].pc \in {"loading", "running", "saved"}
    /\ \E text \in AgentErrors :
          LET e == Raise("Exception", text) IN
          req' = [req EXCEPT ![r] =
                    Finish(r, e, chat_endpoint_except(e, handlers[HandlerOf(r)]))]
    /\ UNCHANGED <<procVars, handlers, store, conns, nextRun, deriveVars, handlerVars>>

\* inside agent.ainvoke the agent has its answer and the memory saves the
\* turn: the rows are committed over the async connection, and the request is
\* suspended in that await when they become visible
Save(r) ==
    /\ req[r].pc = "running"
    /\ req[r].runs = {}
    /\ \E reply \in Replies :
          /\ store' = add_messages(store, req[r].session_id, req[r].message, reply)
          /\ req' = [req EXCEPT ![r] = [@ EXCEPT !.pc = "saved", !.output = reply]]
    /\ UNCHANGED <<procVars, handlers, conns, nextRun, deriveVars, handlerVars>>

\* agent.ainvoke returns and the response is built
AgentFinish(r) ==
    /\ req[r].pc = "saved"
    /\ req' = [req EXCEPT ![r] =
                 Finish(r, NoException,
                        ChatResponse(req[r].output,
                                     get_latest_result(handlers[HandlerOf(r)])))]
    /\ UNCHANGED <<procVars, handlers, store, conns, nextRun, deriveVars, handlerVars>>

\* nothing in the handler closes the connection: it is closed when the
\* interpreter finalizes the unreferenced object, at a time of its own choosing
Finalize(r) ==
    /\ req[r].pc = "done"
    /\ r \in conns
    /\ conns' = conns \ {r}
    /\ UNCHANGED <<procVars, req, handlers, store, nextRun, deriveVars, handlerVars>>

(***************************************************************************)
(* Specifications                                                          *)
(***************************************************************************)
Init == DeriveIdle /\ HandlerIdle /\ ProcInit /\ ChatIdle

Next ==
    \/ startup
    \/ \E r \in Reqs : Receive(r)
    \/ \E r \in Reqs : Connect(r)
    \/ \E r \in Reqs : Load(r)
    \/ \E r \in Reqs : ToolStart(r)
    \/ \E r \in Reqs : ToolEnd(r)
    \/ \E r \in Reqs : AgentFail(r)
    \/ \E r \in Reqs : Save(r)
    \/ \E r \in Reqs : AgentFinish(r)
    \/ \E r \in Reqs : Finalize(r)

Spec == Init /\ [][Next]_vars

InitDerive == DeriveInit /\ HandlerIdle /\ ProcIdle /\ ChatIdle

NextDerive == DeriveCall \/ DeriveNext

SpecDerive == InitDerive /\ [][NextDerive]_vars

InitHandler == DeriveIdle /\ HandlerInit /\ ProcIdle /\ ChatIdle

NextHandler == HToolStart \/ HToolEnd \/ HGetLatest

SpecHandler == InitHandler /\ [][NextHandler]_vars

(***************************************************************************)
(* Properties                                                              *)
(***************************************************************************)
\* the sql_db_query runs started and not ended within the first n events
Pending(log, n) ==
    {id \in RunIdArgs :
        \E i \in 1..n :
            /\ log[i].kind = "start"
            /\ tool_name(log[i].serialized) = SQL_TOOL
            /\ log[i].run_id = id
            /\ \A j \in (i + 1)..n : ~(log[j].kind = "end" /\ log[j].run_id = id)}

\* the tool-ended events that close a pending sql_db_query run
Capturing(log) ==
    {i \in 1..Len(log) : log[i].kind = "end" /\ log[i].run_id \in Pending(log, i - 1)}

Expected(log) ==
    IF Capturing(log) = {}
    THEN None
    ELSE log[CHOOSE i \in Capturing(log) : \A j \in Capturing(log) : j <= i].output

\* C1: whatever events one handler is given, the value read as raw_sql_result
\* is the output of the latest tool-ended event that closed a pending
\* sql_db_query run, None when there is none; other events do not change it.
C1_RawSqlResult ==
    /\ get_latest_result(h_obj) = Expected(h_log)
    /\ h_ret.read => h_ret.value = Expected(h_log)

\* the scenario of the spec: r1 (query) ends with "5 rows", then an unrelated r2
C1_Witness ==
    /\ h_ret.read /\ h_ret.value = FiveRows
    /\ h_log = <<StartEvent(Dict(SQL_TOOL), 1), EndEvent(FiveRows, 1),
                 StartEvent(Dict("sql_db_schema"), 2), EndEvent(NoRows, 2)>>

\* C10: the pending set holds only sql_db_query runs started and not yet
\* ended; a tool-ended event removes its run id if pending, and otherwise (a
\* repeated end, an end never started as sql_db_query) changes nothing.
C10_PendingSet ==
    /\ [](h_obj.sql_run_ids \subseteq Pending(h_log, Len(h_log)))
    /\ [][LET e == h_log'[Len(h_log')] IN
          (Len(h_log') = Len(h_log) + 1 /\ e.kind = "end") =>
             IF e.run_id \in h_obj.sql_run_ids
             THEN h_obj'.sql_run_ids = h_obj.sql_run_ids \ {e.run_id}
             ELSE h_obj' = h_obj]_vars

C10_Witness ==
    /\ h_log = <<StartEvent(Dict(SQL_TOOL), 1), EndEvent(FiveRows, 1),
                 EndEvent(NoRows, 1), EndEvent(NoRows, 2)>>
    /\ h_obj = [latest_sql_result |-> FiveRows, sql_run_ids |-> {}]

OnlyWhitespace(s) == \A i \in 1..Len(s) : s[i] \in Whitespace

Surrogates == {row[1] : row \in {e \in Escaped : e[2] >= 55296 /\ e[2] <= 57343}}

\* C5 as stated: stable_session_id raises a ValueError naming the constraint
\* when user_id is None, empty or only whitespace, and returns a session id
\* for every other input.
C5_DeriveRejectsBlank ==
    d_out.called =>
        IF d_in = None
        THEN d_out.result = Raise("ValueError", "user_id cannot be None")
        ELSE IF OnlyWhitespace(d_in)
             THEN d_out.result = Raise("ValueError", "user_id cannot be empty")
             ELSE d_out.result.ok /\ Len(d_out.result.value) = 36

\* C5, amended: stable_session_id raises a ValueError naming the constraint
\* when user_id is None, empty or only whitespace; on a str that holds a lone
\* surrogate it raises UnicodeEncodeError; in these cases it returns no
\* identifier, and for every other input it returns a session id.
C5_DeriveRejectsBlankOrSurrogate ==
    d_out.called =>
        IF d_in = None
        THEN d_out.result = Raise("ValueError", "user_id cannot be None")
        ELSE IF OnlyWhitespace(d_in)
             THEN d_out.result = Raise("ValueError", "user_id cannot be empty")
             ELSE IF \E i \in 1..Len(d_in) : d_in[i] \in Surrogates
                  THEN /\ ~d_out.result.ok
                       /\ d_out.result.type = "UnicodeEncodeError"
                  ELSE d_out.result.ok /\ Len(d_out.result.value) = 36

\* a user id of blanks, a letter and a lone surrogate
C5_Witness ==
    /\ d_out.called /\ d_in = <<EM_SPACE, "a", LONE_SURROGATE>>
    /\ d_out.result =
          Raise("UnicodeEncodeError",
                "'utf-8' codec can't encode character '\\ud800' in position 1: surrogates not allowed")

Done(r)    == req[r].pc = "done"
Bound(r)   == req[r].session_id # NoSession
WellFormed(r) == req[r].message # None /\ req[r].user_id # None

\* C2 as stated: every request that fails, at whatever stage, ends in a 500
\* whose detail is the exception's text.
C2_AnyFailureIs500 ==
    \A r \in Reqs :
        Done(r) =>
            \/ req[r].response.status = 200
            \/ /\ req[r].response.status = 500
               /\ ~req[r].exc.ok
               /\ req[r].response.detail = req[r].exc.text

\* C2, amended: an exception raised inside the handler (session-id derivation,
\* history-store connection, agent execution) ends the request in a 500 whose
\* detail is the exception's text, with no reply and no raw_sql_result, and no
\* step is tried twice; a body that fails validation never enters the handler
\* and is answered 422.
C2_HandlerFailureIs500 ==
    \A r \in Reqs :
        /\ req[r].connects <= 1 /\ req[r].invokes <= 1
        /\ Done(r) =>
              IF ~WellFormed(r)
              THEN /\ req[r].response.status = 422
                   /\ req[r].exc.ok /\ req[r].connects = 0 /\ req[r].invokes = 0
              ELSE IF req[r].exc.ok
                   THEN req[r].response.status = 200
                   ELSE req[r].response = [status |-> 500, detail |-> req[r].exc.text]

\* the agent fails after a query result was captured
C2_Witness ==
    \E r \in Reqs :
        /\ Done(r) /\ req[r].response.status = 500
        /\ req[r].response.detail \in AgentErrors
        /\ req[r].sql_outputs # {}
        /\ get_latest_result(handlers[HandlerOf(r)]) = FiveRows

\* C3 as stated: requests with different user_id values are bound to
\* different session ids.
C3_DifferentUserIds ==
    \A r1, r2 \in Reqs :
        (Bound(r1) /\ Bound(r2) /\ req[r1].user_id # req[r2].user_id)
            => req[r1].session_id # req[r2].session_id

\* uuid5 gives different names different ids, on all the names hashed
UUID5Injective ==
    \A row1, row2 \in UUID5Memo :
        (row1[2].ok /\ row2[2].ok /\ row1[1] # row2[1])
            => row1[2].value # row2[2].value

Saved(r) == req[r].output # None

\* the other requests that have written a turn under the trimmed user id of r
Peers(r) ==
    {q \in Reqs \ {r} : Saved(q) /\ Strip(req[q].user_id) = Strip(req[r].user_id)}

\* C3, amended: requests whose user_id values differ after strip() are bound
\* to different session ids (no two of the names hashed collide), and the
\* history a request has read holds rows of its own session only, no more
\* than the requests of the same trimmed user id have written.
C3_Isolation ==
    /\ UUID5Injective
    /\ \A r1, r2 \in Reqs :
        (Bound(r1) /\ Bound(r2) /\ Strip(req[r1].user_id) # Strip(req[r2].user_id))
            => /\ req[r1].session_id # req[r2].session_id
               /\ \A i \in 1..Len(req[r1].history) :
                     /\ req[r1].history[i].session_id = req[r1].session_id
                     /\ req[r1].history[i].session_id # req[r2].session_id
    /\ \A r \in Reqs : Len(req[r].history) <= 2 * Cardinality(Peers(r))

\* a request of alice has read its history after Qun Li's turn was written
C3_Witness ==
    /\ Done(1) /\ req[1].response.status = 200 /\ req[1].user_id = QunLi
    /\ req[2].pc = "running" /\ req[2].user_id = Alice
    /\ Len(store) = 2 /\ req[2].history = <<>>

HasTurn(history, message, reply) ==
    \E i \in 1..(Len(history) - 1) :
        /\ history[i].type = "human" /\ history[i].content = message
        /\ history[i + 1].type = "ai" /\ history[i + 1].content = reply

\* C4: requests whose user_id values are equal after strip() are bound to the
\* same session id, and a request that reads its history after such a request
\* has appended its turn (and so, after it has completed with a reply) finds
\* that turn in it.
C4_SameSessionSeesTurns ==
    /\ [](\A r1, r2 \in Reqs :
            (Bound(r1) /\ Bound(r2) /\ Strip(req[r1].user_id) = Strip(req[r2].user_id))
                => req[r1].session_id = req[r2].session_id)
    /\ [][\A r1, r2 \in Reqs :
            ( /\ req[r2].pc = "loading" /\ req'[r2].pc = "running"
              /\ Saved(r1)
              /\ Strip(req[r1].user_id) = Strip(req[r2].user_id) )
                => HasTurn(req'[r2].history, req[r1].message, req[r1].output)]_vars

C4_Witness ==
    /\ Done(1) /\ req[1].response.status = 200 /\ req[1].user_id = <<" ">> \o QunLi \o <<" ">>
    /\ req[2].pc = "running" /\ req[2].user_id = QunLi
    /\ req[2].session_id = "dd860587-75ec-57ba-8f11-d3ff0429ca50"
    /\ HasTurn(req[2].history, req[1].message, req[1].response.reply)

\* C6 as stated: a request with an empty message or an empty user_id is
\* rejected before a session id is derived, a connection opened or the agent
\* invoked.
C6_EmptyFieldsRejectedFirst ==
    \A r \in Reqs :
        (req[r].pc # "idle" /\ WellFormed(r)
            /\ (req[r].message = <<>> \/ req[r].user_id = <<>>))
            => /\ Done(r) /\ req[r].response.status # 200
               /\ ~Bound(r) /\ req[r].connects = 0 /\ req[r].invokes = 0

\* C6, amended: a request whose user_id is empty or only whitespace is
\* rejected when the session id is derived, before a connection is opened and
\* before the agent is invoked; the message is not examined, and a request
\* with any other user_id is bound to a session whatever its message.
C6_BlankUserRejectedAtDerivation ==
    \A r \in Reqs :
        (req[r].pc # "idle" /\ WellFormed(r)) =>
            IF OnlyWhitespace(req[r].user_id)
            THEN /\ Done(r)
                 /\ req[r].response =
                       [status |-> 500, detail |-> "user_id cannot be empty"]
                 /\ ~Bound(r) /\ req[r].connects = 0 /\ req[r].invokes = 0
            ELSE Bound(r)

C6_Witness ==
    \E r1, r2 \in Reqs :
        /\ Done(r1) /\ req[r1].user_id = <<" ">> /\ req[r1].response.status = 500
        /\ req[r2].message = <<>> /\ req[r2].invokes = 1

\* C7: the raw_sql_result a request returns is None or the output of a
\* sql_db_query run of that request's own agent execution, under every
\* interleaving of the requests' tool events.
C7_OwnResultOnly ==
    \A r \in Reqs :
        (Done(r) /\ req[r].response.status = 200) =>
            \/ req[r].response.raw_sql_result = None
            \/ req[r].response.raw_sql_result \in req[r].sql_outputs

\* two requests ran tools; each returns what its own query produced
C7_Witness ==
    /\ Done(1) /\ req[1].response.status = 200
    /\ Done(2) /\ req[2].response.status = 200
    /\ req[1].response.raw_sql_result = None
    /\ req[2].response.raw_sql_result = FiveRows
    /\ req[2].sql_outputs = {FiveRows}

\* C8: a request that has ended holds no open history connection, so the open
\* connections never outnumber the requests in flight.
C8_ConnectionReleased ==
    /\ \A r \in Reqs : Done(r) => r \notin conns
    /\ Cardinality(conns)
          <= Cardinality({r \in Reqs : req[r].pc \notin {"idle", "done"}})

\* C9: a request is served only after the table-ensure step has succeeded; a
\* failure of the step is re-raised and aborts startup, so that no request is
\* served; the step succeeds when the table exists already.
C9_StartupGate ==
    /\ (\E r \in Reqs : req[r].pc # "idle")
          => (phase = "serving" /\ startupLog.ran /\ startupLog.result.ok
                /\ tableExists)
    /\ startupLog.ran
          => /\ startupLog.result.ok <=> phase = "serving"
             /\ ~startupLog.result.ok <=> phase = "aborted"
             /\ (startupLog.existed /\ ~startupLog.backendFails)
                   => startupLog.result = Return("exists")
    /\ phase = "aborted" => \A r \in Reqs : req[r].pc = "idle"

C9_Witness ==
    /\ startupLog.ran /\ startupLog.existed /\ startupLog.result.ok
    /\ \E r \in Reqs : Done(r) /\ req[r].response.status = 200

====
